---- MODULE Spec2Model ----
(***************************************************************************)
(* Model of tests/performance-test.js (src/unnamed/part_000): the class    *)
(* PerformanceTester and the function runPerformanceTests.                 *)
(*                                                                         *)
(* Granularity: JavaScript runs one macrotask (an I/O event of a request,  *)
(* a timer) to completion together with every microtask it queues, so an   *)
(* action is one such event plus all the synchronous code and promise      *)
(* continuations it triggers, up to the next await on I/O or on a timer.   *)
(* The code reached from an event is written as operators from a state     *)
(* record to a state record; an action applies one of them.                *)
(***************************************************************************)
EXTENDS Integers, Sequences, FiniteSets, TLC

(* ------------------------------ bounds --------------------------------- *)
\* largest concurrency argument a direct call passes (the smallest is -1)
MaxConcurrency == 2
\* largest totalRequests argument a direct call passes
MaxTotal == 4
\* Date.now() stops advancing at this value
MaxTime == 2
\* largest latency of a fixed-latency backend
MaxLatency == 2
\* turns of the non-terminating loop (concurrency <= 0) that are followed
MaxSpin == 2
\* interval ticks of the resource monitor that are followed
MaxTicks == 1
\* testMultipleEndpoints: the source passes 50 and 200
MultiConcurrency == 1
MultiTotal == 1
\* testResourceUsage: the source passes 20 and 300
ResourceConcurrency == 2
ResourceTotal == 2
\* testLoadIncrease: the source multiplies each level by 5
LoadFactor == 2
\* batch results a tester holds when generateReport is called directly
MaxBatchResults == 2
\* calls of formatReportAsText by a driver
MaxFormatCalls == 2

\* status codes the backend answers with
StatusCodes == {200, 500}
\* testMultipleEndpoints: the first endpoints of the source's list of five
EndpointList == <<"/api/users", "/api/posts">>
\* testLoadIncrease: the source's levels are 10, 25, 50, 100, 200
LoadLevels == <<1, 2>>
\* status codes on and next to the limits of the success range, and 500
BoundaryCodes == {199, 200, 299, 300, 500}
\* endpoints a direct call passes
DriverEndpoints == {"/api/users"}
\* success rates (percent) and throughputs of the batch results a tester holds
\* when generateReport is called directly
RateInputs == {80, 81, 90, 91, 95, 96}
RpsInputs == {200, 201, 500, 501, 800, 801, 900}

VARIABLES
  now,        \* Date.now()
  tests,      \* this.results.tests
  summary,    \* this.results.summary
  tcc,        \* activation of testConcurrentConnections (the latest one)
  strayOld,   \* requests of earlier activations that are still in flight
  mon,        \* the setInterval monitor of testResourceUsage
  run,        \* activation of runPerformanceTests and of the sweep it is in
  file        \* performance-results.txt

vars == <<now, tests, summary, tcc, strayOld, mon, run, file>>

\* the state as one record, for the operators that model code
State ==
  [now |-> now, tests |-> tests, summary |-> summary, tcc |-> tcc,
   strayOld |-> strayOld, mon |-> mon, run |-> run, file |-> file]

Apply(s) ==
  /\ now' = s.now
  /\ tests' = s.tests
  /\ summary' = s.summary
  /\ tcc' = s.tcc
  /\ strayOld' = s.strayOld
  /\ mon' = s.mon
  /\ run' = s.run
  /\ file' = s.file

InitFrom(s) ==
  /\ now = s.now
  /\ tests = s.tests
  /\ summary = s.summary
  /\ tcc = s.tcc
  /\ strayOld = s.strayOld
  /\ mon = s.mon
  /\ run = s.run
  /\ file = s.file

(* ------------------------- JavaScript values --------------------------- *)
\* A JS number is an integer (the model keeps rationals as num/den where the
\* code divides), or one of NaN, Infinity, -Infinity; undefined is a value too.
Num(v) == [kind |-> "num", v |-> v]
NaN == [kind |-> "NaN", v |-> 0]
PosInf == [kind |-> "Infinity", v |-> 0]
NegInf == [kind |-> "-Infinity", v |-> 0]
Undefined == [kind |-> "undefined", v |-> 0]

\* a template literal `${x}unit`
Fmt(x, unit) == [value |-> x, unit |-> unit]

Min(a, b) == IF a < b THEN a ELSE b
Max(a, b) == IF a > b THEN a ELSE b

\* Math.round(num / den * scale) for num, den, scale >= 0
\* (round half up; x/0 is Infinity for x > 0 and NaN for x = 0)
RoundDiv(num, den, scale) ==
  IF den = 0
    THEN IF num = 0 THEN NaN ELSE PosInf
    ELSE Num((2 * num * scale + den) \div (2 * den))

RECURSIVE SumSeq(_)
SumSeq(s) == IF s = <<>> THEN 0 ELSE Head(s) + SumSeq(Tail(s))

RECURSIVE MinSeq(_)
MinSeq(s) == IF Len(s) = 1 THEN Head(s) ELSE Min(Head(s), MinSeq(Tail(s)))

RECURSIVE MaxSeq(_)
MaxSeq(s) == IF Len(s) = 1 THEN Head(s) ELSE Max(Head(s), MaxSeq(Tail(s)))

RECURSIVE Replicate(_, _)
Replicate(n, x) == IF n <= 0 THEN <<>> ELSE <<x>> \o Replicate(n - 1, x)

(* ----------------------------- makeRequest ----------------------------- *)
\* Success with <= 300 for < 300
SuccessUpTo300(statusCode) == statusCode >= 200 /\ statusCode <= 300

\* success: res.statusCode >= 200 && res.statusCode < 300
Success(statusCode) == statusCode >= 200 /\ statusCode < 300

\* the object makeRequest resolves with on the response's 'end' event
Outcome(statusCode, startTime, endTime) ==
  [statusCode |-> statusCode,
   duration |-> endTime - startTime,
   success |-> Success(statusCode)]

\* a request of the awaited group: dispatched and not settled, or resolved
PendingSlot == [state |-> "pending", statusCode |-> 0, duration |-> 0, success |-> FALSE]
ResolvedSlot(o) ==
  [state |-> "resolved", statusCode |-> o.statusCode, duration |-> o.duration,
   success |-> o.success]
SlotOutcome(s) ==
  [statusCode |-> s.statusCode, duration |-> s.duration, success |-> s.success]

(* ----------------------- testConcurrentConnections --------------------- *)
NoResult == [test_name |-> "none"]

\* pc: idle (never called), await (Promise.all of a group), spin (Promise.all
\* of an empty group, a microtask), returned.  groupSizes[g] is the number of
\* requests dispatched in group g, groupInflight[g] how many of them are not
\* settled; the awaited group is the last one.  testsBefore is the value of
\* this.results.tests when the call was made.
IdleCall ==
  [pc |-> "idle", caller |-> "", endpoint |-> "", concurrency |-> 0,
   totalRequests |-> 0, startTime |-> 0, batch |-> 0, results |-> <<>>,
   slots |-> <<>>, groupStart |-> 0, groupSizes |-> <<>>,
   groupInflight |-> <<>>, testResult |-> NoResult, testsBefore |-> <<>>]

\* RequestsPerSecond with the quotient upside down
RequestsPerSecondInverted(totalRequests, totalDuration) ==
  RoundDiv(totalDuration, totalRequests, 1000)

\* Math.round((totalRequests / totalDuration) * 1000)
RequestsPerSecond(totalRequests, totalDuration) ==
  RoundDiv(totalRequests, totalDuration, 1000)

\* the statistics and the testResult object
Statistics(t, endTime) ==
  LET results == t.results
      totalDuration == endTime - t.startTime
      successfulRequests ==
        Cardinality({i \in 1..Len(results) : results[i].success})
      failedRequests == Len(results) - successfulRequests
      durations == [i \in 1..Len(results) |-> results[i].duration]
      avgDuration == RoundDiv(SumSeq(durations), Len(durations), 1)
      minDuration == IF durations = <<>> THEN PosInf ELSE Num(MinSeq(durations))
      maxDuration == IF durations = <<>> THEN NegInf ELSE Num(MaxSeq(durations))
      requestsPerSecond == RequestsPerSecond(t.totalRequests, totalDuration)
  IN [test_name |-> "Concurrent Connections Test",
      endpoint |-> t.endpoint,
      concurrency |-> t.concurrency,
      total_requests |-> t.totalRequests,
      total_duration |-> Fmt(Num(totalDuration), "ms"),
      successful_requests |-> successfulRequests,
      failed_requests |-> failedRequests,
      success_rate |-> Fmt(RoundDiv(successfulRequests, t.totalRequests, 100), "%"),
      requests_per_second |-> requestsPerSecond,
      average |-> Fmt(avgDuration, "ms"),
      minimum |-> Fmt(minDuration, "ms"),
      maximum |-> Fmt(maxDuration, "ms")]

\* BatchSize without the Math.min: every group is given `concurrency` requests
BatchSizeNoMin(t) == t.concurrency

\* const batchSize = Math.min(concurrency, totalRequests - batch)
BatchSize(t) == Min(t.concurrency, t.totalRequests - t.batch)

\* the loop body up to `await Promise.all(batchPromises)`: batchSize calls of
\* makeRequest, each of which dispatches its request at once
DispatchGroup(t, time) ==
  LET batchSize == BatchSize(t)
  IN IF batchSize > 0
       THEN [t EXCEPT !.pc = "await",
                      !.slots = Replicate(batchSize, PendingSlot),
                      !.groupStart = time,
                      !.groupSizes = Append(@, batchSize),
                      !.groupInflight = Append(@, batchSize)]
       \* Promise.all([]) is already resolved: the await is a microtask
       ELSE [t EXCEPT !.pc = "spin", !.slots = <<>>]

\* the code after the loop: statistics, this.results.tests.push, return
FinishCall(s) ==
  LET testResult == Statistics(s.tcc, s.now)
  IN [s EXCEPT !.tcc.pc = "returned", !.tcc.slots = <<>>,
               !.tcc.testResult = testResult,
               !.tests = Append(@, testResult)]

\* the loop test `batch < totalRequests` and what follows it
LoopHead(s) ==
  IF s.tcc.batch < s.tcc.totalRequests
    THEN [s EXCEPT !.tcc = DispatchGroup(s.tcc, s.now)]
    ELSE FinishCall(s)

\* the loop increment `batch += concurrency`, then the loop test
NextIteration(s) ==
  LoopHead([s EXCEPT !.tcc.batch = @ + s.tcc.concurrency])

InFlightOfCall(t) == SumSeq(t.groupInflight)

\* a call testConcurrentConnections(endpoint, concurrency, totalRequests), up
\* to its first await or, when the loop is not entered, to its return
StartCall(s, caller, endpoint, concurrency, totalRequests) ==
  LoopHead([s EXCEPT
    !.strayOld = @ + InFlightOfCall(s.tcc),
    !.tcc = [IdleCall EXCEPT !.caller = caller,
                             !.endpoint = endpoint,
                             !.concurrency = concurrency,
                             !.totalRequests = totalRequests,
                             !.startTime = s.now,
                             !.testsBefore = s.tests]])

\* the catch block of the loop body: log, fall through to the loop increment
CatchBatchError(s) == NextIteration(s)

\* a continuation that pushes the results of the group and then stays where
\* it is, the loop not going on
GroupResolvedStall(s) ==
  LET batchResults == [j \in 1..Len(s.tcc.slots) |-> SlotOutcome(s.tcc.slots[j])]
  IN [s EXCEPT !.tcc.results = @ \o batchResults]

\* the continuation of `await Promise.all(batchPromises)` when it resolves
GroupResolved(s) ==
  LET batchResults == [j \in 1..Len(s.tcc.slots) |-> SlotOutcome(s.tcc.slots[j])]
  IN NextIteration([s EXCEPT !.tcc.results = @ \o batchResults])

\* the 'end' event of the response of request i of the awaited group
OnResponseEnd(s, i, statusCode) ==
  LET g == Len(s.tcc.groupInflight)
      o == Outcome(statusCode, s.tcc.groupStart, s.now)
      s1 == [s EXCEPT !.tcc.slots[i] = ResolvedSlot(o),
                      !.tcc.groupInflight[g] = @ - 1]
      allDone == \A j \in 1..Len(s1.tcc.slots) : s1.tcc.slots[j].state = "resolved"
  IN IF allDone THEN GroupResolved(s1) ELSE s1

\* the 'error' event of request i of the awaited group: its promise rejects,
\* so Promise.all rejects at once and the await throws
OnRequestError(s, i) ==
  LET g == Len(s.tcc.groupInflight)
  IN CatchBatchError([s EXCEPT !.tcc.groupInflight[g] = @ - 1])

(* ------------------------------ the report ----------------------------- *)
\* const duration = 30000 in testResourceUsage
MonitorDuration == 30000

\* this.results.summary = {} : every field reads as undefined
EmptySummary ==
  [total_tests |-> Undefined,
   average_requests_per_second |-> Undefined,
   average_response_time |-> Undefined,
   overall_performance |-> "undefined",
   scalability_rating |-> "undefined"]

\* parseInt of a number or of `${number}unit`: the leading decimal digits;
\* "NaN", "Infinity" and "-Infinity" do not start with a digit
ParseInt(x) == IF x.kind = "num" THEN x ELSE NaN

\* parseFloat of `${number}unit`: the leading decimal literal, which may be
\* Infinity or -Infinity
ParseFloat(x) == IF x.kind \in {"num", "Infinity", "-Infinity"} THEN x ELSE NaN

\* tests.reduce((sum, test) => sum + f(test), 0) / tests.length, as the
\* fraction num/den, for values that are numbers >= 0, NaN or Infinity
Mean(xs) ==
  IF \E i \in 1..Len(xs) : xs[i].kind \in {"NaN", "undefined"}
    THEN [kind |-> "NaN", num |-> 0, den |-> 1]
    ELSE IF \E i \in 1..Len(xs) : xs[i].kind = "Infinity"
      THEN [kind |-> "Infinity", num |-> 0, den |-> 1]
      ELSE IF Len(xs) = 0
        THEN [kind |-> "NaN", num |-> 0, den |-> 1]
        ELSE [kind |-> "num", num |-> SumSeq([i \in 1..Len(xs) |-> xs[i].v]),
              den |-> Len(xs)]

\* MeanAbove with >= for >
MeanAtLeast(m, k) ==
  \/ m.kind = "Infinity"
  \/ m.kind = "num" /\ m.num >= k * m.den

\* m > k for a mean m and an integer k (false for NaN)
MeanAbove(m, k) ==
  \/ m.kind = "Infinity"
  \/ m.kind = "num" /\ m.num > k * m.den

\* Math.round(m)
RoundMean(m) ==
  IF m.kind = "num" THEN RoundDiv(m.num, m.den, 1)
    ELSE IF m.kind = "Infinity" THEN PosInf ELSE NaN

ConcurrentTests(allTests) ==
  SelectSeq(allTests, LAMBDA t : t.test_name = "Concurrent Connections Test")

calculateScalabilityRating(cts) ==
  IF Len(cts) = 0 THEN "No Data"
  ELSE
    LET avgSuccessRate ==
          Mean([i \in 1..Len(cts) |-> ParseFloat(cts[i].success_rate.value)])
        avgRPS ==
          Mean([i \in 1..Len(cts) |-> ParseInt(cts[i].requests_per_second)])
    IN IF MeanAbove(avgSuccessRate, 95) /\ MeanAbove(avgRPS, 800)
         THEN "Highly Scalable"
       ELSE IF MeanAbove(avgSuccessRate, 90) /\ MeanAbove(avgRPS, 500)
         THEN "Scalable"
       ELSE IF MeanAbove(avgSuccessRate, 80) /\ MeanAbove(avgRPS, 200)
         THEN "Moderately Scalable"
       ELSE "Limited Scalability"

\* generateReport: sets this.results.summary when there is a batch result
generateReport(s) ==
  LET allTests == s.tests
      cts == ConcurrentTests(allTests)
      avgRPS == Mean([i \in 1..Len(cts) |-> ParseInt(cts[i].requests_per_second)])
      avgResponseTime ==
        Mean([i \in 1..Len(cts) |-> ParseInt(cts[i].average.value)])
  IN IF Len(cts) > 0
       THEN [s EXCEPT !.summary =
              [total_tests |-> Num(Len(allTests)),
               average_requests_per_second |-> RoundMean(avgRPS),
               average_response_time |-> Fmt(RoundMean(avgResponseTime), "ms"),
               overall_performance |->
                 IF MeanAbove(avgRPS, 500) THEN "Excellent"
                 ELSE IF MeanAbove(avgRPS, 200) THEN "Good"
                 ELSE "Needs Improvement",
               scalability_rating |-> calculateScalabilityRating(cts)]]
       ELSE s

\* new Date() in the constructor: the clock when the tester was constructed
ConstructedAt == 0

\* this.results, the object generateReport returns
Report(s) == [timestamp |-> ConstructedAt, summary |-> s.summary, tests |-> s.tests]

\* a formatter that prints the current time for report.timestamp
formatReportWithClock(report) ==
  << <<"Test Date: ", now>>,
     <<"Total Tests: ", report.summary.total_tests>> >>
  \o [i \in 1..Len(report.tests) |-> <<"TEST ", i, report.tests[i]>>]

\* formatReportAsText: the header block, one section per test in order, the
\* closing block; a line is kept as its label and the value printed after it
formatReportAsText(report) ==
  << <<"Test Date: ", report.timestamp>>,
     <<"Total Tests: ", report.summary.total_tests>>,
     <<"Overall Performance: ", report.summary.overall_performance>>,
     <<"Scalability Rating: ", report.summary.scalability_rating>>,
     <<"Average RPS: ", report.summary.average_requests_per_second>>,
     <<"Average Response Time: ", report.summary.average_response_time>> >>
  \o [i \in 1..Len(report.tests) |-> <<"TEST ", i, report.tests[i]>>]
  \o << <<"PERFORMANCE ANALYSIS:", "">> >>

\* the report file: whether it was written, its text, and the text handed to
\* a writeFile that has not settled
NoFile == [written |-> FALSE, text |-> <<>>, pending |-> <<>>]

(* --------------------------- the sweeps -------------------------------- *)
\* the monitor of testResourceUsage: the interval timer, the health probes in
\* flight (stage1: the first makeRequest of a tick, stage2: the second), the
\* number of probes dispatched so far, the measurements array, and the number
\* of ticks whose probes both got their response, the first one a success,
\* before the load call resolved
MonitorIdle ==
  [active |-> FALSE, cancelled |-> FALSE, ticks |-> 0, probes |-> 0,
   stage1 |-> 0, stage2 |-> 0, measurements |-> <<>>, startTime |-> 0,
   completed |-> 0]

\* entry: the function the driver called; pc: where the sweep or the run is
\* waiting; idx: position in the endpoint list or in the load levels;
\* preflight: how the health check of runPerformanceTests ended; exit: the
\* exit status of the process; latency: the time every request takes when the
\* backend is one of fixed latency; calls, returned: how often the driver has
\* called formatReportAsText and the text the last call returned; health: the
\* status code of the response to the preflight request, 0 while there is none
IdleRun ==
  [entry |-> "", pc |-> "idle", idx |-> 0, loadResults |-> <<>>,
   preflight |-> "none", exit |-> "none", latency |-> 0,
   calls |-> 0, returned |-> <<>>, health |-> 0]

\* String(value) for a plain object such as the one makeRequest resolves with
ObjectToString(o) == "[object Object]"

\* JSON.parse(text) throws a SyntaxError unless text is a JSON document;
\* "[object Object]" is none
JSONParseThrows(text) == text = "[object Object]"

RECURSIVE AfterCall(_)
RECURSIVE SweepReturn(_, _)

\* `await this.testConcurrentConnections(...)` in a caller: the call runs to its
\* first await; if it has returned already the caller goes on
CallAndAwait(s, caller, endpoint, concurrency, totalRequests) ==
  LET s1 == StartCall(s, caller, endpoint, concurrency, totalRequests)
  IN IF s1.tcc.pc = "returned" THEN AfterCall(s1) ELSE s1

\* testMultipleEndpoints: the call for endpoint k of the list
MultiCall(s, k) ==
  CallAndAwait([s EXCEPT !.run.pc = "multi", !.run.idx = k],
               "testMultipleEndpoints", EndpointList[k],
               MultiConcurrency, MultiTotal)

\* testMultipleEndpoints: the pause timer fires, the for-of loop goes on
OnMultiPause(s) ==
  IF s.run.idx < Len(EndpointList)
    THEN MultiCall(s, s.run.idx + 1)
    ELSE SweepReturn(s, "testMultipleEndpoints")

\* testResourceUsage up to `await loadPromise`
ResourceStart(s) ==
  LET s0 == [s EXCEPT !.run.pc = "resource",
                      !.mon = [MonitorIdle EXCEPT !.startTime = s.now]]
      s1 == StartCall(s0, "testResourceUsage", "/api/users",
                      ResourceConcurrency, ResourceTotal)
      s2 == [s1 EXCEPT !.mon.active = TRUE]
  IN IF s2.tcc.pc = "returned" THEN AfterCall(s2) ELSE s2

\* testResourceUsage after `await loadPromise`
ResourceFinish(s) ==
  LET n == Len(s.mon.measurements)
      resourceTest ==
        [test_name |-> "Resource Usage Test",
         duration |-> Fmt(Num(MonitorDuration), "ms"),
         measurements |-> n,
         samples |-> n,
         monitoring_duration |-> Fmt(Num(MonitorDuration \div 1000), "s")]
  IN SweepReturn([s EXCEPT !.mon.active = FALSE, !.mon.cancelled = TRUE,
                           !.tests = Append(@, resourceTest)],
                 "testResourceUsage")

\* the setInterval callback up to its first await
OnInterval(s) ==
  [s EXCEPT !.mon.ticks = @ + 1, !.mon.stage1 = @ + 1, !.mon.probes = @ + 1]

\* the callback after `await this.makeRequest('/health')` resolved
OnProbeEnd(s, statusCode) ==
  LET response == Outcome(statusCode, 0, 0)
      s1 == [s EXCEPT !.mon.stage1 = @ - 1]
  IN IF response.success
       THEN [s1 EXCEPT !.mon.stage2 = @ + 1, !.mon.probes = @ + 1]
       ELSE s1

\* the callback when an awaited makeRequest rejected: the catch block
OnProbeError(s, stage) ==
  IF stage = 1 THEN [s EXCEPT !.mon.stage1 = @ - 1]
               ELSE [s EXCEPT !.mon.stage2 = @ - 1]

\* the callback after the second makeRequest resolved: JSON.parse of the
\* resolved object, then measurements.push
OnSecondProbeEnd(s, statusCode) ==
  LET value == Outcome(statusCode, 0, 0)
      s1 == [s EXCEPT !.mon.stage2 = @ - 1,
                      !.mon.completed = IF s.mon.cancelled THEN @ ELSE @ + 1]
  IN IF JSONParseThrows(ObjectToString(value))
       THEN s1
       ELSE [s1 EXCEPT !.mon.measurements =
                         Append(@, [timestamp |-> s.now - s.mon.startTime])]

\* the call for level k with concurrency and total the other way round
LoadCallSwapped(s, k) ==
  CallAndAwait([s EXCEPT !.run.pc = "load", !.run.idx = k],
               "testLoadIncrease", "/api/posts",
               LoadLevels[k] * LoadFactor, LoadLevels[k])

\* testLoadIncrease: the call for level k
LoadCall(s, k) ==
  CallAndAwait([s EXCEPT !.run.pc = "load", !.run.idx = k],
               "testLoadIncrease", "/api/posts",
               LoadLevels[k], LoadLevels[k] * LoadFactor)

LoadStart(s) == LoadCall([s EXCEPT !.run.loadResults = <<>>], 1)

\* testLoadIncrease: the pause timer fires, the for-of loop goes on
OnLoadPause(s) ==
  IF s.run.idx < Len(LoadLevels)
    THEN LoadCall(s, s.run.idx + 1)
    ELSE LET loadTest == [test_name |-> "Load Increase Test",
                          load_levels |-> s.run.loadResults]
         IN SweepReturn([s EXCEPT !.tests = Append(@, loadTest)],
                        "testLoadIncrease")

\* saveResults up to `await fs.promises.writeFile`
SaveStart(s) ==
  LET s1 == generateReport(s)
      report == Report(s1)
  IN [s1 EXCEPT !.run.pc = "save", !.file.pending = formatReportAsText(report)]

\* saveResults after the write settled (its catch block only logs), then the
\* rest of runPerformanceTests
OnWriteSettled(s, ok) ==
  [s EXCEPT !.run.pc = "finished",
            !.file = IF ok
                       THEN [written |-> TRUE, text |-> @.pending, pending |-> <<>>]
                       ELSE [@ EXCEPT !.pending = <<>>]]

\* a sweep returns to its caller: the driver, or runPerformanceTests, which
\* goes on with the next statement of its try block
SweepReturn(s, name) ==
  IF s.run.entry = name
    THEN [s EXCEPT !.run.pc = "done"]
    ELSE CASE name = "testMultipleEndpoints" -> ResourceStart(s)
           [] name = "testResourceUsage" -> LoadStart(s)
           [] name = "testLoadIncrease" -> SaveStart(generateReport(s))

\* the continuation of the caller that awaits testConcurrentConnections
AfterCall(s) ==
  CASE s.tcc.caller = "driver" -> [s EXCEPT !.run.pc = "done"]
    [] s.tcc.caller = "testMultipleEndpoints" -> [s EXCEPT !.run.pc = "multiPause"]
    [] s.tcc.caller = "testResourceUsage" -> ResourceFinish(s)
    [] s.tcc.caller = "testLoadIncrease" ->
         LET result == s.tcc.testResult
         IN [s EXCEPT !.run.pc = "loadPause",
                      !.run.loadResults = Append(@,
                        [load_level |-> LoadLevels[s.run.idx],
                         success_rate |-> result.success_rate,
                         requests_per_second |-> result.requests_per_second,
                         avg_response_time |-> result.average])]

\* an event handler of testConcurrentConnections ran: if the call returned,
\* its caller goes on in the same turn
Settle(s) == IF s.tcc.pc = "returned" THEN AfterCall(s) ELSE s

\* a preflight that ends the process when the request got a response
OnPreflightEndExit(s) ==
  [s EXCEPT !.run.preflight = "ok", !.run.pc = "exited", !.run.exit = "1"]

\* runPerformanceTests: the preflight request settled
OnPreflightEnd(s) == MultiCall([s EXCEPT !.run.preflight = "ok"], 1)

\* the catch block of the preflight without process.exit(1): the error is
\* logged and the second try block is entered
OnPreflightErrorNoExit(s) == MultiCall([s EXCEPT !.run.preflight = "failed"], 1)

\* the catch block of the preflight: process.exit(1)
OnPreflightError(s) ==
  [s EXCEPT !.run.preflight = "failed", !.run.pc = "exited", !.run.exit = "1"]

(* ------------------------------ events --------------------------------- *)
\* the process has not exited
Alive == run.exit = "none"

Fresh ==
  [now |-> 0, tests |-> <<>>, summary |-> EmptySummary, tcc |-> IdleCall,
   strayOld |-> 0, mon |-> MonitorIdle, run |-> IdleRun, file |-> NoFile]

\* a tester on which testConcurrentConnections('/api/users', 1, 1) has
\* completed with one 200 response
AfterOneCall ==
  [OnResponseEnd(StartCall(Fresh, "driver", "/api/users", 1, 1), 1, 200)
     EXCEPT !.run = IdleRun]

\* a driver calls testConcurrentConnections(endpoint, concurrency, totalRequests)
CallTCC ==
  /\ Alive
  /\ run.pc = "idle"
  /\ \E endpoint \in DriverEndpoints, concurrency \in -1..MaxConcurrency,
        totalRequests \in 0..MaxTotal :
       Apply(CallAndAwait(
         [State EXCEPT !.run.entry = "testConcurrentConnections",
                       !.run.pc = "direct"],
         "driver", endpoint, concurrency, totalRequests))

\* a request of the awaited group gets its whole response, with a status
\* code among `codes`
ResolveWith(codes) ==
  /\ Alive
  /\ tcc.pc = "await"
  /\ \E i \in 1..Len(tcc.slots), statusCode \in codes :
       /\ tcc.slots[i].state = "pending"
       /\ Apply(Settle(OnResponseEnd(State, i, statusCode)))

Resolve == ResolveWith(StatusCodes)

\* the same against a backend whose API endpoints answer 200 whenever they
\* answer
ResolveHealthy == ResolveWith({200})

\* the same against a backend that answers with the boundary status codes
ResolveBoundary == ResolveWith(BoundaryCodes)

\* a request of the awaited group fails at transport level
Reject ==
  /\ Alive
  /\ tcc.pc = "await"
  /\ \E i \in 1..Len(tcc.slots) :
       /\ tcc.slots[i].state = "pending"
       /\ Apply(Settle(OnRequestError(State, i)))

\* a request of a group that is no longer awaited settles: nobody listens
StraySettle ==
  /\ Alive
  /\ \E g \in 1..Len(tcc.groupInflight) :
       /\ tcc.groupInflight[g] > 0
       /\ tcc.pc = "await" => g < Len(tcc.groupInflight)
       /\ tcc' = [tcc EXCEPT !.groupInflight[g] = @ - 1]
  /\ UNCHANGED <<now, tests, summary, strayOld, mon, run, file>>

\* the same for a request of an earlier activation
OldStraySettle ==
  /\ Alive
  /\ strayOld > 0
  /\ strayOld' = strayOld - 1
  /\ UNCHANGED <<now, tests, summary, tcc, mon, run, file>>

\* one turn of the loop when the group is empty (concurrency <= 0)
Spin ==
  /\ Alive
  /\ tcc.pc = "spin"
  /\ tcc.batch + tcc.concurrency >= 0 - MaxSpin
  /\ Apply(Settle(GroupResolved(State)))

\* Date.now() advances
Tick ==
  /\ Alive
  /\ now < MaxTime
  /\ now' = now + 1
  /\ UNCHANGED <<tests, summary, tcc, strayOld, mon, run, file>>

\* a driver calls testResourceUsage()
CallResource ==
  /\ Alive
  /\ run.pc = "idle"
  /\ Apply(ResourceStart([State EXCEPT !.run.entry = "testResourceUsage"]))

\* a driver calls testLoadIncrease()
CallLoad ==
  /\ Alive
  /\ run.pc = "idle"
  /\ Apply(LoadStart([State EXCEPT !.run.entry = "testLoadIncrease"]))

\* the interval timer fires
MonitorTick ==
  /\ Alive
  /\ mon.active
  /\ mon.ticks < MaxTicks
  /\ Apply(OnInterval(State))

\* the first health probe of a tick gets its response
ProbeEnd ==
  /\ Alive
  /\ mon.stage1 > 0
  /\ \E statusCode \in StatusCodes : Apply(OnProbeEnd(State, statusCode))

\* the second health probe of a tick gets its response
SecondProbeEnd ==
  /\ Alive
  /\ mon.stage2 > 0
  /\ \E statusCode \in StatusCodes : Apply(OnSecondProbeEnd(State, statusCode))

\* a health probe of the monitor fails at transport level
ProbeError ==
  /\ Alive
  /\ \E stage \in {1, 2} :
       /\ IF stage = 1 THEN mon.stage1 > 0 ELSE mon.stage2 > 0
       /\ Apply(OnProbeError(State, stage))

\* node tests/performance-test.js: runPerformanceTests up to the await of the
\* preflight request
StartRun ==
  /\ Alive
  /\ run.pc = "idle"
  /\ run' = [run EXCEPT !.entry = "runPerformanceTests", !.pc = "preflight",
                        !.preflight = "pending"]
  /\ UNCHANGED <<now, tests, summary, tcc, strayOld, mon, file>>

\* the preflight request gets a response, of whatever status
PreflightEnd ==
  /\ Alive
  /\ run.pc = "preflight"
  /\ \E statusCode \in StatusCodes : Apply(OnPreflightEnd(State))

\* the preflight request gets a response with one of the boundary status
\* codes; the code is kept in run.health
PreflightEndAny ==
  /\ Alive
  /\ run.pc = "preflight"
  /\ \E statusCode \in BoundaryCodes :
       Apply([OnPreflightEnd(State) EXCEPT !.run.health = statusCode])

\* the preflight request fails at transport level
PreflightError ==
  /\ Alive
  /\ run.pc = "preflight"
  /\ Apply(OnPreflightError(State))

\* the pause timer of testMultipleEndpoints fires
MultiPause ==
  /\ Alive
  /\ run.pc = "multiPause"
  /\ Apply(OnMultiPause(State))

\* the pause timer of testLoadIncrease fires
LoadPause ==
  /\ Alive
  /\ run.pc = "loadPause"
  /\ Apply(OnLoadPause(State))

\* fs.promises.writeFile settles
WriteSettled ==
  /\ Alive
  /\ run.pc = "save"
  /\ \E ok \in BOOLEAN : Apply(OnWriteSettled(State, ok))

\* nothing is pending any more: node exits with status 0
ProcessEnd ==
  /\ Alive
  /\ run.pc = "finished"
  /\ InFlightOfCall(tcc) = 0
  /\ strayOld = 0
  /\ mon.stage1 = 0
  /\ mon.stage2 = 0
  /\ run' = [run EXCEPT !.pc = "exited", !.exit = "0"]
  /\ UNCHANGED <<now, tests, summary, tcc, strayOld, mon, file>>

\* a <= b for JS numbers that are integers or Infinity
JsLeq(a, b) ==
  \/ b.kind = "Infinity"
  \/ a.kind = "num" /\ b.kind = "num" /\ a.v <= b.v

\* against a backend of fixed latency, a driver calls testConcurrentConnections
\* with some concurrency and total, and when that call has returned once more
\* with the same total and a concurrency that is not smaller
CallFixed ==
  /\ Alive
  /\ run.pc \in {"idle", "done"}
  /\ Len(tests) < 2
  /\ \E concurrency \in 1..MaxTotal, totalRequests \in 1..MaxTotal,
        latency \in 0..MaxLatency :
       /\ run.pc = "done" =>
            /\ concurrency >= tcc.concurrency
            /\ totalRequests = tcc.totalRequests
            /\ latency = run.latency
       /\ Apply(CallAndAwait(
            [State EXCEPT !.run.entry = "fixedLatency", !.run.pc = "direct",
                          !.run.latency = latency],
            "driver", "/api/users", concurrency, totalRequests))

\* time passes while the awaited group's requests are being served
LatencyTick ==
  /\ Alive
  /\ run.entry = "fixedLatency"
  /\ tcc.pc = "await"
  /\ now < tcc.groupStart + run.latency
  /\ now' = now + 1
  /\ UNCHANGED <<tests, summary, tcc, strayOld, mon, run, file>>

\* a request of the awaited group is answered 200 after exactly the latency
FixedResolve ==
  /\ run.entry = "fixedLatency"
  /\ now = tcc.groupStart + run.latency
  /\ ResolveWith({200})

\* a result of testConcurrentConnections with the given success rate and
\* throughput: rps requests in 1000 ms, rate percent of them successful
BatchResultOf(rate, rps) ==
  LET successfulRequests == (rate * rps + 50) \div 100
  IN [test_name |-> "Concurrent Connections Test",
      endpoint |-> "/api/users",
      concurrency |-> 1,
      total_requests |-> rps,
      total_duration |-> Fmt(Num(1000), "ms"),
      successful_requests |-> successfulRequests,
      failed_requests |-> rps - successfulRequests,
      success_rate |-> Fmt(Num(rate), "%"),
      requests_per_second |-> Num(rps),
      average |-> Fmt(Num(1), "ms"),
      minimum |-> Fmt(Num(1), "ms"),
      maximum |-> Fmt(Num(1), "ms")]

BatchResultInputs == {BatchResultOf(rate, rps) : rate \in RateInputs, rps \in RpsInputs}

\* a driver calls generateReport()
CallGenerateReport ==
  /\ Alive
  /\ run.pc = "idle"
  /\ Apply([generateReport(State) EXCEPT !.run.entry = "generateReport",
                                         !.run.pc = "done"])

\* a driver calls formatReportAsText(report) with the report of the tester
CallFormat ==
  /\ Alive
  /\ run.pc \in {"idle", "done", "formatted"}
  /\ run.calls < MaxFormatCalls
  /\ Apply([State EXCEPT !.run.entry = "formatReportAsText",
                         !.run.pc = "formatted",
                         !.run.calls = @ + 1,
                         !.run.returned = formatReportAsText(Report(State))])

(* --------------------------- specifications ---------------------------- *)
\* a direct call of testConcurrentConnections on a tester that is new or has
\* one earlier result
Init == \E s \in {Fresh, AfterOneCall} : InitFrom(s)

Next ==
  \/ CallTCC
  \/ Resolve
  \/ Reject
  \/ StraySettle
  \/ Spin
  \/ Tick

Spec == Init /\ [][Next]_vars

\* the same where every dispatched request eventually completes: a request of
\* the awaited group resolves or rejects, a request left behind settles
RequestPending ==
  /\ Alive
  /\ tcc.pc = "await"
  /\ \E i \in 1..Len(tcc.slots) : tcc.slots[i].state = "pending"

\* weak fairness of Resolve \/ Reject, written out with RequestPending, the
\* condition under which one of the two can happen, and of StraySettle
SpecLive ==
  /\ Init
  /\ [][Next]_vars
  /\ ([]<>(~RequestPending) \/ []<><<Resolve \/ Reject>>_vars)
  /\ WF_vars(StraySettle)

\* a direct call of testResourceUsage on a new tester
InitFresh == InitFrom(Fresh)

NextResource ==
  \/ CallResource
  \/ MonitorTick
  \/ ProbeEnd
  \/ SecondProbeEnd
  \/ ProbeError
  \/ Resolve
  \/ Reject
  \/ StraySettle
  \/ Tick

SpecResource == InitFresh /\ [][NextResource]_vars

\* a direct call of testLoadIncrease on a new tester, the clock standing still
NextLoad ==
  \/ CallLoad
  \/ LoadPause
  \/ Resolve
  \/ Reject
  \/ StraySettle

SpecLoad == InitFresh /\ [][NextLoad]_vars

\* the program run from the command line
NextRun ==
  \/ StartRun
  \/ PreflightEnd
  \/ PreflightError
  \/ MultiPause
  \/ LoadPause
  \/ WriteSettled
  \/ ProcessEnd
  \/ MonitorTick
  \/ ProbeEnd
  \/ SecondProbeEnd
  \/ ProbeError
  \/ ResolveHealthy
  \/ Reject
  \/ StraySettle
  \/ OldStraySettle

SpecRun == InitFresh /\ [][NextRun]_vars

\* the program run from the command line against a backend whose /health
\* answers the preflight with any of the boundary status codes or not at all,
\* and whose API endpoints answer every request with 200
NextPreflight ==
  \/ StartRun
  \/ PreflightEndAny
  \/ PreflightError
  \/ MultiPause
  \/ LoadPause
  \/ WriteSettled
  \/ ProcessEnd
  \/ MonitorTick
  \/ ProbeEnd
  \/ SecondProbeEnd
  \/ ProbeError
  \/ ResolveHealthy

SpecPreflight == InitFresh /\ [][NextPreflight]_vars

\* a direct call of generateReport on a tester that holds no result or some
\* batch results
InitReport ==
  \E n \in 0..MaxBatchResults :
    \E held \in [1..n -> BatchResultInputs] :
      InitFrom([Fresh EXCEPT !.tests = held])

NextReport == CallGenerateReport

SpecReport == InitReport /\ [][NextReport]_vars

\* a tester that holds no result or some batch results
InitFormat ==
  \E n \in 0..MaxBatchResults :
    \E held \in [1..n -> {BatchResultOf(rate, rps) : rate \in {80, 96},
                                                     rps \in {200, 900}}] :
      InitFrom([Fresh EXCEPT !.tests = held])

\* direct calls of generateReport and formatReportAsText on such a tester, the
\* clock advancing in between
NextFormat ==
  \/ CallGenerateReport
  \/ CallFormat
  \/ Tick

SpecFormat == InitFormat /\ [][NextFormat]_vars

\* a direct call of testConcurrentConnections on a new tester against a
\* backend that answers with the boundary status codes, the clock standing still
NextStatus ==
  \/ CallTCC
  \/ ResolveBoundary
  \/ Reject
  \/ StraySettle
  \/ Spin

SpecStatus == InitFresh /\ [][NextStatus]_vars

\* two calls of testConcurrentConnections against a backend of fixed latency
NextFixed ==
  \/ CallFixed
  \/ LatencyTick
  \/ FixedResolve

SpecFixed == InitFresh /\ [][NextFixed]_vars

(* ------------------------------ claims --------------------------------- *)
\* a direct call of testConcurrentConnections has been made
DirectCall == run.entry = "testConcurrentConnections" /\ tcc.pc # "idle"

\* C1: during a call with concurrency C >= 1, the number of requests of the
\* call that are dispatched and not settled never exceeds C.
C1_InFlightAtMostC ==
  (DirectCall /\ tcc.concurrency >= 1) => InFlightOfCall(tcc) <= tcc.concurrency

\* C2: once a request of group k+1 is dispatched, every request of group k has
\* settled.
C2_GroupsSequential ==
  DirectCall =>
    \A g \in 1..(Len(tcc.groupInflight) - 1) : tcc.groupInflight[g] = 0

\* C3: every result of testConcurrentConnections with total_requests = N > 0
\* has successful_requests + failed_requests = N.
C3_CountsSumToTotal ==
  \A i \in 1..Len(tests) :
    (tests[i].test_name = "Concurrent Connections Test"
       /\ tests[i].total_requests > 0) =>
      tests[i].successful_requests + tests[i].failed_requests
        = tests[i].total_requests

\* C4: after a call with C >= 1, the outcome set the counts and the latency
\* figures are computed from has exactly N entries, a request that failed at
\* transport level being one of them.
C4_AllOutcomesRecorded ==
  (DirectCall /\ tcc.pc = "returned" /\ tcc.concurrency >= 1) =>
    Len(tcc.results) = tcc.totalRequests

\* C5: for C >= 1 and N >= 1 the call dispatches its requests in consecutive
\* groups of 1..C requests, only the last of which may have fewer than C, never
\* more than N requests in all, and when it returns it has dispatched exactly N
\* requests in ceil(N/C) groups, whatever the requests' outcomes were.
C5_Partition ==
  (DirectCall /\ tcc.concurrency >= 1 /\ tcc.totalRequests >= 1) =>
    LET gs == tcc.groupSizes
        C == tcc.concurrency
        N == tcc.totalRequests
    IN /\ \A g \in 1..Len(gs) : gs[g] >= 1 /\ gs[g] <= C
       /\ \A g \in 1..(Len(gs) - 1) : gs[g] = C
       /\ SumSeq(gs) <= N
       /\ Len(gs) >= 1
       /\ tcc.pc = "returned" =>
            /\ SumSeq(gs) = N
            /\ Len(gs) = (N + C - 1) \div C

\* C5 witness: a call with N = 3 and C = 2 has returned after one of its
\* requests failed, having dispatched a group of 2 and a group of 1.
C5_Witness ==
  /\ DirectCall
  /\ tcc.pc = "returned"
  /\ tcc.concurrency = 2
  /\ tcc.totalRequests = 3
  /\ Len(tcc.results) < 3
  /\ tcc.groupSizes = <<2, 1>>

\* C6: if the preflight request fails, the process exits with status 1 and no
\* sweep executes: testConcurrentConnections is never called, the monitor
\* dispatches no probe, nothing is appended to the report and no file is written.
C6_PreflightFailureStopsRun ==
  run.preflight = "failed" =>
    /\ run.exit = "1"
    /\ tcc.pc = "idle"
    /\ strayOld = 0
    /\ mon.probes = 0
    /\ ~mon.active
    /\ tests = <<>>
    /\ ~file.written

\* C6 witness: the preflight request has failed.
C6_Witness == run.preflight = "failed" /\ run.exit = "1"

\* C7: a call with totalRequests = 0 returns no result and appends no entry to
\* the report's tests.
C7_ZeroTotalFails ==
  (DirectCall /\ tcc.totalRequests = 0) =>
    /\ tcc.testResult.test_name = "none"
    /\ Len(tests) = Len(tcc.testsBefore)

\* C8: a call with concurrency <= 0 and totalRequests > 0 is over at once, has
\* dispatched no request and has left the report's tests as they were.
C8_BadConcurrencyFails ==
  (DirectCall /\ tcc.concurrency <= 0 /\ tcc.totalRequests > 0) =>
    /\ tcc.pc \notin {"await", "spin"}
    /\ tcc.groupSizes = <<>>
    /\ Len(tests) = Len(tcc.testsBefore)

\* C9: once polling is cancelled, the monitor dispatches no further health
\* probe and records no further measurement.
C9_NothingAfterCancel ==
  [][mon.cancelled =>
       /\ mon'.probes = mon.probes
       /\ Len(mon'.measurements) = Len(mon.measurements)]_vars

\* C10: when testConcurrentConnections pushes its result, no request of the
\* call is in flight.
C10_PushAfterAllSettled ==
  [][(DirectCall' /\ Len(tests') = Len(tests) + 1) => InFlightOfCall(tcc') = 0]_vars

\* generateReport has been called directly
ReportGenerated == run.entry = "generateReport" /\ run.pc = "done"

\* the sums of the success rates and of the throughputs of the held results
HeldRateSum == SumSeq([i \in 1..Len(tests) |-> tests[i].success_rate.value.v])
HeldRpsSum == SumSeq([i \in 1..Len(tests) |-> tests[i].requests_per_second.v])

\* C11: with n >= 1 batch results of mean success rate s and mean throughput t,
\* the scalability rating is Highly Scalable for s > 95 and t > 800, else
\* Scalable for s > 90 and t > 500, else Moderately Scalable for s > 80 and
\* t > 200, else Limited Scalability; the performance rating is Excellent for
\* t > 500, Good for t > 200, else Needs Improvement (all comparisons strict).
C11_RatingThresholds ==
  (ReportGenerated /\ Len(tests) >= 1) =>
    LET n == Len(tests)
        S == HeldRateSum
        T == HeldRpsSum
    IN /\ summary.scalability_rating =
            (IF S > 95 * n /\ T > 800 * n THEN "Highly Scalable"
             ELSE IF S > 90 * n /\ T > 500 * n THEN "Scalable"
             ELSE IF S > 80 * n /\ T > 200 * n THEN "Moderately Scalable"
             ELSE "Limited Scalability")
       /\ summary.overall_performance =
            (IF T > 500 * n THEN "Excellent"
             ELSE IF T > 200 * n THEN "Good"
             ELSE "Needs Improvement")

\* C11 witness: one batch result with success rate 95 and throughput 900 is
\* rated Scalable and Excellent.
C11_Witness ==
  /\ ReportGenerated
  /\ Len(tests) = 1
  /\ HeldRateSum = 95
  /\ HeldRpsSum = 900
  /\ summary.scalability_rating = "Scalable"
  /\ summary.overall_performance = "Excellent"

\* C12: when the report is generated with no batch result held, the
\* summary's scalability rating is No Data.
C12_NoDataWhenEmpty ==
  (ReportGenerated /\ Len(ConcurrentTests(tests)) = 0) =>
    summary.scalability_rating = "No Data"

\* a percentage: a number from 0 to 100
IsPercentage(x) == x.kind = "num" /\ x.v >= 0 /\ x.v <= 100

\* C13: every success rate testConcurrentConnections derives is a percentage
\* p with 0 <= p <= 100.
C13_RateIsPercentage ==
  \A i \in 1..Len(tests) :
    tests[i].test_name = "Concurrent Connections Test" =>
      IsPercentage(tests[i].success_rate.value)

\* both calls against the fixed-latency backend have returned
FixedPairDone ==
  run.entry = "fixedLatency" /\ run.pc = "done" /\ Len(tests) = 2

\* C14: against a backend where every request succeeds after the same fixed
\* latency, for a fixed N the requests_per_second is >= 0 and C1 <= C2 implies
\* throughput(C1, N) <= throughput(C2, N).
C14_ThroughputMonotone ==
  (FixedPairDone /\ tests[1].concurrency <= tests[2].concurrency
     /\ tests[1].total_requests = tests[2].total_requests) =>
    /\ JsLeq(Num(0), tests[1].requests_per_second)
    /\ JsLeq(Num(0), tests[2].requests_per_second)
    /\ JsLeq(tests[1].requests_per_second, tests[2].requests_per_second)

\* C14 witness: with N = 4 and latency 1, concurrency 1 gives 1000 requests
\* per second and concurrency 2 gives 2000.
C14_Witness ==
  /\ FixedPairDone
  /\ run.latency = 1
  /\ tests[1].concurrency = 1
  /\ tests[2].concurrency = 2
  /\ tests[1].total_requests = 4
  /\ tests[1].requests_per_second = Num(1000)
  /\ tests[2].requests_per_second = Num(2000)

\* C15: an outcome is a success iff its status code is in [200,300); when no
\* request of a call failed at transport level, successful_requests is the
\* number of responses with a status in [200,300) and failed_requests the
\* number of all other responses.
C15_SuccessIffStatus2xx ==
  (DirectCall /\ tcc.pc = "returned" /\ Len(tcc.results) = tcc.totalRequests) =>
    LET in2xx == {i \in 1..Len(tcc.results) :
                   tcc.results[i].statusCode \in 200..299}
    IN /\ \A i \in 1..Len(tcc.results) : tcc.results[i].success <=> i \in in2xx
       /\ tcc.testResult.successful_requests = Cardinality(in2xx)
       /\ tcc.testResult.failed_requests = tcc.totalRequests - Cardinality(in2xx)

\* C15 witness: 4 requests, one answered 500, one 299, two 200: 3 successful,
\* 1 failed, success rate 75%.
C15_Witness ==
  /\ DirectCall
  /\ tcc.pc = "returned"
  /\ tcc.totalRequests = 4
  /\ Len(tcc.results) = 4
  /\ Cardinality({i \in 1..4 : tcc.results[i].statusCode = 500}) = 1
  /\ Cardinality({i \in 1..4 : tcc.results[i].statusCode = 299}) = 1
  /\ Cardinality({i \in 1..4 : tcc.results[i].statusCode = 200}) = 2
  /\ tcc.testResult.successful_requests = 3
  /\ tcc.testResult.failed_requests = 1
  /\ tcc.testResult.success_rate = Fmt(Num(75), "%")

\* testLoadIncrease was called by the driver and has not returned
LoadSweepRunning ==
  run.entry = "testLoadIncrease" /\ run.pc \in {"load", "loadPause"}

\* C16: the load-increase sweep runs its levels one after another in list
\* order, one call of testConcurrentConnections per level L with concurrency L
\* and totalRequests L times the factor, and its entry holds one summary per
\* level in the order of the levels.
C16_LevelsInOrder ==
  /\ LoadSweepRunning =>
        /\ run.idx \in 1..Len(LoadLevels)
        /\ tcc.caller = "testLoadIncrease"
        /\ tcc.concurrency = LoadLevels[run.idx]
        /\ tcc.totalRequests = LoadLevels[run.idx] * LoadFactor
        /\ Len(tests) = Len(run.loadResults)
        /\ Len(run.loadResults) = IF run.pc = "load" THEN run.idx - 1 ELSE run.idx
        /\ \A k \in 1..Len(tests) :
              /\ tests[k].concurrency = LoadLevels[k]
              /\ tests[k].total_requests = LoadLevels[k] * LoadFactor
              /\ run.loadResults[k].load_level = LoadLevels[k]
              /\ run.loadResults[k].success_rate = tests[k].success_rate
  /\ (run.entry = "testLoadIncrease" /\ run.pc = "done") =>
        /\ Len(tests) = Len(LoadLevels) + 1
        /\ tests[Len(tests)].test_name = "Load Increase Test"
        /\ Len(tests[Len(tests)].load_levels) = Len(LoadLevels)
        /\ \A k \in 1..Len(LoadLevels) :
              /\ tests[k].concurrency = LoadLevels[k]
              /\ tests[k].total_requests = LoadLevels[k] * LoadFactor
              /\ tests[Len(tests)].load_levels[k].load_level = LoadLevels[k]
              /\ tests[Len(tests)].load_levels[k].success_rate = tests[k].success_rate

\* C16 witness: the sweep returned with the summaries of levels 1 and 2, the
\* batches having run 2 and 4 requests.
C16_Witness ==
  /\ run.entry = "testLoadIncrease"
  /\ run.pc = "done"
  /\ Len(tests) = 3
  /\ tests[1].total_requests = LoadLevels[1] * LoadFactor
  /\ tests[2].total_requests = LoadLevels[2] * LoadFactor
  /\ tests[2].total_requests > tests[2].concurrency
  /\ Len(tests[3].load_levels) = 2
  /\ tests[3].load_levels[1].load_level = 1
  /\ tests[3].load_levels[2].load_level = 2

\* C17: a run that passed the preflight and completed its sweeps exits with
\* status 0 only after the report file was written; a failed write ends the
\* process with a status other than 0.
C17_ExitZeroOnlyAfterWrite ==
  (run.entry = "runPerformanceTests" /\ run.exit = "0") => file.written

C19_SamplesCountHealthyTicks ==
  (run.entry = "testResourceUsage" /\ run.pc = "done") =>
    /\ tests[Len(tests)].test_name = "Resource Usage Test"
    /\ tests[Len(tests)].samples = mon.completed

\* a direct call with C >= 1 and N >= 1 awaits a group
AwaitingGroup ==
  /\ DirectCall
  /\ tcc.concurrency >= 1
  /\ tcc.totalRequests >= 1
  /\ tcc.pc = "await"

\* the call has returned its result and appended that one entry to tests
ReturnedOneEntry ==
  /\ tcc.pc = "returned"
  /\ tcc.testResult # NoResult
  /\ tests = Append(tcc.testsBefore, tcc.testResult)

\* C20: for C >= 1 and N >= 1, when every dispatched request eventually
\* completes the call eventually returns a result and appends exactly one
\* entry to tests; and the call gets past the await of a group only in a step
\* in which the last request of the group completes or a request of the group
\* rejects, so with a request that never completes and no rejection in its
\* group the call never returns.
C20_ReturnsWhenRequestsComplete ==
  /\ AwaitingGroup ~> ReturnedOneEntry
  /\ [][(AwaitingGroup /\ (tcc'.pc # "await"
                            \/ Len(tcc'.groupSizes) > Len(tcc.groupSizes))) =>
          LET g == Len(tcc.groupInflight)
          IN \/ /\ tcc'.groupInflight[g] = 0
                /\ Len(tcc'.results) = Len(tcc.results) + tcc.groupSizes[g]
             \/ /\ tcc'.groupInflight[g] = tcc.groupInflight[g] - 1
                /\ tcc'.results = tcc.results]_vars
  /\ [][AwaitingGroup => tests' = tests \/ ReturnedOneEntry']_vars

\* C20 witness: a call with C = 2 and N = 4 has returned after two groups, one
\* of them left by a rejection, every request has completed and tests has
\* exactly one more entry than before the call.
C20_Witness ==
  /\ DirectCall
  /\ tcc.concurrency = 2
  /\ tcc.totalRequests = 4
  /\ ReturnedOneEntry
  /\ Len(tcc.groupSizes) = 2
  /\ Len(tcc.results) = 2
  /\ InFlightOfCall(tcc) = 0
  /\ Len(tests) = Len(tcc.testsBefore) + 1

\* the entries a run has appended when all three sweeps have completed: one
\* per endpoint, the load call and the entry of the resource sweep, one per
\* load level and the entry of the load-increase sweep
AllSweepsDone ==
  /\ Len(tests) = Len(EndpointList) + 2 + Len(LoadLevels) + 1
  /\ \A k \in 1..Len(EndpointList) : tests[k].endpoint = EndpointList[k]
  /\ tests[Len(EndpointList) + 2].test_name = "Resource Usage Test"
  /\ tests[Len(tests)].test_name = "Load Increase Test"

\* C21: the preflight aborts the run only when the health request fails at
\* transport level: the process exits with status 1 only after such a
\* failure, and a health response with any status code, 2xx or not, enters
\* the first sweep in the same turn and lets the run go on through all sweeps.
C21_PreflightPassesOnAnyStatus ==
  /\ [](run.exit = "1" => run.preflight = "failed" /\ run.health = 0)
  /\ [][(run.pc = "preflight" /\ run'.health # 0) =>
          /\ run'.preflight = "ok"
          /\ run'.exit = "none"
          /\ run'.pc = "multi"
          /\ tcc'.caller = "testMultipleEndpoints"
          /\ tcc'.endpoint = EndpointList[1]
          /\ tcc'.pc = "await"]_vars
  /\ []((run.health # 0 /\ run.pc \in {"save", "finished", "exited"}) =>
          /\ run.exit \in {"none", "0"}
          /\ AllSweepsDone)

\* C21 witness: the health request was answered 500 and the run has gone
\* through all sweeps, written the report and exited with status 0.
C21_Witness ==
  /\ run.entry = "runPerformanceTests"
  /\ run.health = 500
  /\ run.preflight = "ok"
  /\ run.exit = "0"
  /\ file.written
  /\ AllSweepsDone

====
